---- MODULE Spec2Model ----
(***************************************************************************)
(* State-machine model of download-ria-news.py (class RiaAgencyParser):    *)
(* the date-driven crawl loop (_producer), the per-day pipeline            *)
(* (_fetch_all_news_on_page), the fetcher, the article parser and the      *)
(* lazily opened CSV writer.                                               *)
(*                                                                         *)
(* Text is modelled as a sequence of string tokens, None as the record     *)
(* [none |-> TRUE].  A calendar date is the record [y, m, d].              *)
(***************************************************************************)
EXTENDS Integers, Sequences, FiniteSets, TLC

VARIABLES
    site,               \* the archive: the article links of each date's page
    from_date,          \* self._from_date
    to_date,            \* self._to_date
    disk,               \* content of the file named self._outfile_name
    csv_writer,         \* self._csv_writer is not None
    outfile,            \* self._outfile: "None", or the state of the file object
    n_downloaded,       \* self._n_downloaded
    gen,                \* position of the dates_countdown generator
    yielded,            \* the date strings the generator has yielded so far
    date_start,         \* its local date_start
    date,               \* _producer: the loop variable, strftime'd
    pc,                 \* position of the driving coroutine
    index_task,         \* the task of line 144
    html,               \* _producer: the text of the archive page
    news_urls,          \* _fetch_all_news_on_page: news_urls
    tasks,              \* the fetch tasks of line 109
    i,                  \* the loop index of line 111 (1-based here)
    fetched_raw_news,   \* the dict of line 110, in insertion order
    parse_tasks,        \* the dict of line 121, in insertion order
    j,                  \* the position of the loop of line 124 (1-based)
    parsed_news,        \* the list of line 122
    exc,                \* the exception that ended run(), if any
    log                 \* the day-level lines given to the logger

vars == <<site, from_date, to_date, disk, csv_writer, outfile, n_downloaded, gen, yielded,
          date_start,          date, pc, index_task, html, news_urls, tasks, i, fetched_raw_news,
          parse_tasks, j, parsed_news, exc, log>>

-----------------------------------------------------------------------------
(* Bounds of the model.                                                    *)

\* longest date range [from_date, to_date] that is crawled, in days
MaxSpan == 2
\* largest number of matching anchors on the archive pages of the range
MaxLinks == 3

-----------------------------------------------------------------------------
(* Values.                                                                 *)

None == [none |-> TRUE]
Some(v) == [none |-> FALSE, v |-> v]

Range(s) == {s[n] : n \in 1..Len(s)}

\* datetime.date: month lengths and leap years of the proleptic Gregorian calendar
IsLeap(y) == (y % 4 = 0 /\ y % 100 # 0) \/ y % 400 = 0

DaysInMonth(y, m) ==
    IF m = 2 THEN (IF IsLeap(y) THEN 29 ELSE 28)
    ELSE IF m \in {4, 6, 9, 11} THEN 30 ELSE 31

\* date_start + datetime.timedelta(days=1)
AddDay(dt) ==
    IF dt.d < DaysInMonth(dt.y, dt.m) THEN [dt EXCEPT !.d = @ + 1]
    ELSE IF dt.m < 12 THEN [y |-> dt.y, m |-> dt.m + 1, d |-> 1]
    ELSE [y |-> dt.y + 1, m |-> 1, d |-> 1]

RECURSIVE AddDays(_, _)
AddDays(dt, n) == IF n = 0 THEN dt ELSE AddDays(AddDay(dt), n - 1)

\* a loop that stops one day early: date_start < date_end
DateLE_Strict(a, b) ==
    \/ a.y < b.y
    \/ a.y = b.y /\ a.m < b.m
    \/ a.y = b.y /\ a.m = b.m /\ a.d < b.d

\* date_start <= date_end
DateLE(a, b) ==
    \/ a.y < b.y
    \/ a.y = b.y /\ a.m < b.m
    \/ a.y = b.y /\ a.m = b.m /\ a.d <= b.d

\* the decimal digits of n, zero-padded to width w
RECURSIVE Digits(_, _)
Digits(n, w) == IF w = 0 THEN <<>> ELSE Append(Digits(n \div 10, w - 1), n % 10)

\* date_start.strftime("%Y%m%d")
strftime(dt) == Digits(dt.y, 4) \o Digits(dt.m, 2) \o Digits(dt.d, 2)

-----------------------------------------------------------------------------
(* The site and the network: what a GET can be answered with.              *)

\* the page of the archive for one date, f"{self._endpoint}/{date}"
IndexUrl(datestr) == [date |-> datestr, id |-> 0]
\* the n-th article published on that date
ArticleUrl(datestr, n) == [date |-> datestr, id |-> n]

\* An HTML document, reduced to what the two extractors look for:
\*   anchors   the hrefs of <a class="list-item__title">, in document order
\*   title     the text of the first div/h1 of class article__title, or None
\*   divs      the sentences of each <div class="article__text">
\*   date      whether <div class="article__info-date"> exists, and the
\*             whitespace-separated words of the <a> in it (None: no <a>)
Page(anchors, title, divs, container, anchor) ==
    [anchors |-> anchors, title |-> title, divs |-> divs,
     date |-> [container |-> container, anchor |-> anchor]]

BlankPage == Page(<<>>, None, <<>>, FALSE, None)

\* an archive page listing the given links
IndexPage(links) == Page(links, None, <<>>, FALSE, None)

\* a complete article: title, two body divs (three sentences), weekday and time
FullArticle(url) ==
    Page(<<>>, Some(<<"title", ToString(url.id)>>),
         <<<<"lead", "s2">>, <<"s3", ToString(url.id)>>>>,
         TRUE, Some(<<"weekday,", "14:32">>))

\* an article without title and body whose date container has no <a>
BareArticle(url) == Page(<<>>, None, <<>>, TRUE, None)

\* a page without the date container
BrokenArticle(url) ==
    Page(<<>>, Some(<<"title", ToString(url.id)>>), <<>>, FALSE, None)

ArticlePages(url) == {FullArticle(url), BareArticle(url), BrokenArticle(url)}

\* bodies a server sends along with a non-2xx status
ErrorPages(url) == {BrokenArticle(url)}

ArticleIds == {1, 2, 3}

\* the sequences over S of length at most n
RECURSIVE SeqsUpTo(_, _)
SeqsUpTo(S, n) ==
    IF n = 0 THEN {<<>>}
    ELSE LET shorter == SeqsUpTo(S, n - 1)
         IN  shorter \cup {Append(s, x) : s \in shorter, x \in S}

\* the articles of a page are numbered in the order of their first anchor
FirstAnchorOrder(ids) ==
    \A n \in 1..Len(ids) :
        \/ ids[n] = 1
        \/ \E m \in 1..(n - 1) : ids[m] = ids[n] \/ ids[m] = ids[n] - 1

\* the anchor lists a page of the archive can carry (duplicates allowed)
LinkLists == {ids \in SeqsUpTo(ArticleIds, MaxLinks) : FirstAnchorOrder(ids)}

RECURSIVE SumLen(_, _)
SumLen(f, D) ==
    IF D = {} THEN 0
    ELSE LET x == CHOOSE x \in D : TRUE IN Len(f[x]) + SumLen(f, D \ {x})

\* the hrefs of the archive page of a date
Links(datestr, ids) == [n \in 1..Len(ids) |-> ArticleUrl(datestr, ids[n])]

ExceptionClasses ==
    {"ClientResponseError", "ClientConnectionError", "TimeoutError"}

\* what the network does with one GET: an HTTP response or an exception
Response(status, body) == [kind |-> "response", status |-> status, body |-> body]
Failure(class) == [kind |-> class, status |-> 0, body |-> BlankPage]

IndexOutcomes(datestr, ids) ==
    {Response(200, IndexPage(Links(datestr, ids))),
     Response(404, IndexPage(Links(datestr, ids))),
     Response(404, IndexPage(<<>>))}
    \cup {Failure(c) : c \in ExceptionClasses}

ArticleOutcomes(url) ==
    {Response(200, b) : b \in ArticlePages(url)}
    \cup {Response(404, b) : b \in ErrorPages(url)}
    \cup {Failure(c) : c \in ExceptionClasses}

-----------------------------------------------------------------------------
(* The pure functions of the program.                                      *)

Returned(v) == [raised |-> FALSE, exc |-> "", val |-> v]
Raised(class, blank) == [raised |-> TRUE, exc |-> class, val |-> blank]

\* RiaAgencyParser.fetch: the body of whatever response arrives; the status
\* is not looked at.  The exceptions of aiohttp pass through.
fetch(outcome) ==
    IF outcome.kind = "response" THEN Returned(outcome.body)
    ELSE Raised(outcome.kind, BlankPage)

\* RiaAgencyParser._extract_urls_from_html
extract_urls_from_html(doc) == doc.anchors

RECURSIVE Flatten(_)
Flatten(ss) == IF ss = <<>> THEN <<>> ELSE Head(ss) \o Flatten(Tail(ss))

\* sent_tokenize(' '.join(...)): the sentences of all body divs, in order
sent_tokenize(divs) == Flatten(divs)

NoArticle == [title |-> None, date |-> None, text |-> None]

\* RiaAgencyParser.parse_article_html
parse_article_html(doc) ==
    LET title == IF doc.title.none THEN None ELSE Some(doc.title.v)
        text  == IF doc.divs = <<>> THEN None
                 ELSE LET sents == sent_tokenize(doc.divs)
                      IN  Some(SubSeq(sents, 2, Len(sents)))
    IN  IF ~doc.date.container THEN Raised("AttributeError", NoArticle)
        ELSE IF doc.date.anchor.none
             THEN Returned([title |-> title, date |-> None, text |-> text])
        ELSE LET date_time == doc.date.anchor.v
             IN  IF Len(date_time) < 2 THEN Raised("IndexError", NoArticle)
                 ELSE Returned([title |-> title,
                                date |-> Some(<<date_time[2]>>),
                                text |-> text])

\* the except clauses of the fetch loop, lines 114-117
FetchLoopCatches(class) == class \in {"ClientResponseError", "TimeoutError"}

\* the clauses of lines 145-148 alone, without the BaseException of line 149
ProducerCatches_NoBase(class) ==
    class \in {"ClientResponseError", "ClientConnectionError"}

\* the except clauses of _producer, lines 145-150 (BaseException: everything)
ProducerCatches(class) == TRUE

\* a parse loop that catches nothing
ParseLoopCatches_None(class) == FALSE

\* the except clause of the parse loop, line 127 (Exception)
ParseLoopCatches(class) == TRUE

\* the orders in which set(news_urls) can be iterated
Orders(S) == {s \in [1..Cardinality(S) -> S] : Range(s) = S}

\* a list of pairs that is only ever appended to
DictSet_Append(d, k, v) == Append(d, [key |-> k, val |-> v])

\* d[k] = v on a dict kept as a sequence of items in insertion order
DictSet(d, k, v) ==
    IF \E n \in 1..Len(d) : d[n].key = k
    THEN [n \in 1..Len(d) |-> IF d[n].key = k THEN [key |-> k, val |-> v] ELSE d[n]]
    ELSE Append(d, [key |-> k, val |-> v])

\* csv: the header line and one data line; None is written as the empty string
Header == [hdr |-> TRUE, cells |-> <<"url", "title", "date", "text">>]
Cell(opt) == IF opt.none THEN <<>> ELSE opt.v
Row(rec) ==
    [hdr |-> FALSE,
     cells |-> <<rec.url, Cell(rec.title), Cell(rec.date), Cell(rec.text)>>]

RECURSIVE Rows(_)
Rows(recs) == IF recs = <<>> THEN <<>> ELSE <<Row(Head(recs))>> \o Rows(Tail(recs))

-----------------------------------------------------------------------------
(* The state machine.                                                      *)

\* --from-date: the last day of a year
FromDates == {[y |-> 2023, m |-> 12, d |-> 31]}
\* a --to-date that lies before every --from-date
EarlyDate == [y |-> 2023, m |-> 12, d |-> 30]

\* what a previous run left in the output file
PriorFile ==
    <<Header,
      [hdr |-> FALSE,
       cells |-> <<ArticleUrl(strftime(EarlyDate), 1), <<"old">>, <<>>, <<>>>>]>>

\* fetch, line 67: the limit of the TCPConnector
limit == 1024

\* fetch, lines 66-68: every call builds a ClientSession with a TCPConnector
\* of its own, used for the one GET of the call; the connector of a call is
\* named after the url of the call
Connector(task) == task.url

NoUrl == [date |-> <<>>, id |-> 0]
NoTask == [url |-> NoUrl, st |-> "none", status |-> 0, res |-> Returned(BlankPage)]
NewTask(url) == [url |-> url, st |-> "pending", status |-> 0, res |-> Returned(BlankPage)]

\* the dates of the range [from, to]
CrawledDates(from, to) ==
    {dt \in {AddDays(from, k) : k \in 0..(MaxSpan - 1)} : DateLE(dt, to)}

\* RiaAgencyParser.__init__, but for the two dates: nothing is open, nothing
\* is counted, no generator has run
Constructed ==
    /\ disk = PriorFile
    /\ csv_writer = FALSE
    /\ outfile = "None"
    /\ n_downloaded = 0
    /\ gen = "created"
    /\ yielded = <<>>
    /\ date_start = from_date
    /\ date = <<>>
    /\ pc = "loop"
    /\ index_task = NoTask
    /\ html = BlankPage
    /\ news_urls = <<>>
    /\ tasks = <<>>
    /\ i = 1
    /\ fetched_raw_news = <<>>
    /\ parse_tasks = <<>>
    /\ j = 1
    /\ parsed_news = <<>>
    /\ exc = ""
    /\ log = <<>>

\* RiaAgencyParser.__init__
Init ==
    /\ from_date \in FromDates
    /\ to_date \in {AddDays(from_date, k) : k \in 0..(MaxSpan - 1)} \cup {EarlyDate}
    /\ site \in [{strftime(dt) : dt \in CrawledDates(from_date, to_date)} -> LinkLists]
    /\ SumLen(site, DOMAIN site) <= MaxLinks
    /\ Constructed

day_vars == <<news_urls, tasks, i, fetched_raw_news, parse_tasks, j, parsed_news>>
run_vars == <<site, from_date, to_date>>
sink_vars == <<disk, csv_writer, outfile, n_downloaded>>
loop_vars == <<gen, yielded, date_start, date>>

\* a generator that is created anew for every date
NextDate_Restart == from_date

\* the date the generator dates_countdown yields next
NextDate == IF gen = "created" THEN from_date ELSE AddDay(date_start)

\* datetime.date.max: line 52 raises OverflowError when it is stepped over
MaxDate == [y |-> 9999, m |-> 12, d |-> 31]

\* next() of the generator dates_countdown, lines 50-52
Resume ==
    IF gen = "suspended" /\ date_start = MaxDate
    THEN /\ gen' = "raised"
         /\ UNCHANGED <<date_start, yielded>>
    ELSE /\ date_start' = NextDate
         /\ IF DateLE(NextDate, to_date)
            THEN /\ gen' = "suspended"
                 /\ yielded' = Append(yielded, strftime(NextDate))
            ELSE /\ gen' = "exhausted"
                 /\ UNCHANGED yielded

\* _producer, line 140 and 141-144: next(dates_countdown), then the task that
\* fetches the archive page of the date is created and awaited
ProducerLoop ==
    /\ pc = "loop"
    /\ Resume
    /\ IF gen' = "suspended"
       THEN /\ date' = strftime(date_start')
            /\ index_task' = NewTask(IndexUrl(date'))
            /\ pc' = "await_index"
            /\ UNCHANGED exc
       ELSE IF gen' = "exhausted"
       THEN /\ pc' = "done"
            /\ UNCHANGED <<date, index_task, exc>>
       ELSE /\ pc' = "aborted"
            /\ exc' = "OverflowError"
            /\ UNCHANGED <<date, index_task>>
    /\ UNCHANGED <<run_vars, sink_vars, day_vars, html, log>>

\* the network answers the GET of the archive page
IndexResponse ==
    /\ pc = "await_index"
    /\ index_task.st = "pending"
    /\ \E o \in IndexOutcomes(date, site[date]) :
          index_task' = [index_task EXCEPT !.st = "done", !.status = o.status,
                                           !.res = fetch(o)]
    /\ UNCHANGED <<run_vars, sink_vars, loop_vars, pc, html, day_vars,
                   exc, log>>

\* asyncio.run: the exception leaves run(), the tasks still pending are cancelled
Cancelled(ts) ==
    [n \in 1..Len(ts) |->
        IF ts[n].st = "pending" THEN [ts[n] EXCEPT !.st = "cancelled"] ELSE ts[n]]

\* _producer, lines 143-151: the await of line 144 returns or raises
ProducerIndexDone ==
    /\ pc = "await_index"
    /\ index_task.st = "done"
    /\ IF index_task.res.raised
       THEN IF ProducerCatches(index_task.res.exc)
            THEN /\ log' = Append(log, [msg |-> "Cannot fetch", url |-> index_task.url,
                                        n |-> 0, total |-> 0])
                 /\ pc' = "loop"
                 /\ UNCHANGED <<html, exc>>
            ELSE /\ pc' = "aborted"
                 /\ exc' = index_task.res.exc
                 /\ UNCHANGED <<html, log>>
       ELSE /\ html' = index_task.res.val
            /\ pc' = "extract"
            /\ UNCHANGED <<exc, log>>
    /\ index_task' = NoTask
    /\ UNCHANGED <<run_vars, sink_vars, loop_vars, day_vars>>

\* _fetch_all_news_on_page, lines 104-110
SpawnFetches ==
    /\ pc = "extract"
    /\ news_urls' = extract_urls_from_html(html)
    /\ \E order \in Orders(Range(news_urls')) :
          tasks' = [n \in 1..Len(order) |-> NewTask(order[n])]
    /\ i' = 1
    /\ fetched_raw_news' = <<>>
    /\ pc' = "await_fetch"
    /\ UNCHANGED <<run_vars, sink_vars, loop_vars, index_task, html,
                   parse_tasks, j, parsed_news, exc, log>>

\* the network answers the GET of one article
ArticleResponse ==
    /\ pc = "await_fetch"
    /\ \E k \in 1..Len(tasks) :
          /\ tasks[k].st = "pending"
          /\ \E o \in ArticleOutcomes(tasks[k].url) :
                tasks' = [tasks EXCEPT ![k].st = "done", ![k].status = o.status,
                                       ![k].res = fetch(o)]
    /\ UNCHANGED <<run_vars, sink_vars, loop_vars, pc, index_task, html,
                   news_urls, i, fetched_raw_news, parse_tasks, j, parsed_news, exc, log>>

\* a loop that is left after its first round
LoopOver_AfterFirst(k, items) == k > 1 \/ items = <<>>

\* lines 111 and 124: the for loop has gone through all its items
LoopOver(k, items) == k > Len(items)

\* _fetch_all_news_on_page, lines 111-119: one round of the loop
AwaitFetch ==
    /\ pc = "await_fetch"
    /\ i <= Len(tasks)
    /\ tasks[i].st = "done"
    /\ IF tasks[i].res.raised
       THEN IF FetchLoopCatches(tasks[i].res.exc)
            THEN /\ i' = i + 1
                 /\ UNCHANGED <<pc, exc, tasks, fetched_raw_news>>
            ELSE /\ pc' = "aborted"
                 /\ exc' = tasks[i].res.exc
                 /\ tasks' = Cancelled(tasks)
                 /\ UNCHANGED <<i, fetched_raw_news>>
       ELSE /\ fetched_raw_news' = DictSet(fetched_raw_news, news_urls[i], tasks[i].res.val)
            /\ i' = i + 1
            /\ UNCHANGED <<pc, exc, tasks>>
    /\ UNCHANGED <<run_vars, sink_vars, loop_vars, index_task, html,
                   news_urls, parse_tasks, j, parsed_news, log>>

\* _fetch_all_news_on_page, lines 121-122: one coroutine per fetched page
StartParsing ==
    /\ pc = "await_fetch"
    /\ LoopOver(i, tasks)
    /\ parse_tasks' = [n \in 1..Len(fetched_raw_news) |->
                          [key |-> fetched_raw_news[n].key,
                           val |-> fetched_raw_news[n].val, st |-> "created"]]
    /\ j' = 1
    /\ parsed_news' = <<>>
    /\ pc' = "await_parse"
    /\ UNCHANGED <<run_vars, sink_vars, loop_vars, index_task, html,
                   news_urls, tasks, i, fetched_raw_news, exc, log>>

\* line 126: awaiting the coroutine of asyncio.to_thread starts the parse
AwaitParse ==
    /\ pc = "await_parse"
    /\ j <= Len(parse_tasks)
    /\ parse_tasks[j].st = "created"
    /\ parse_tasks' = [parse_tasks EXCEPT ![j].st = "running"]
    /\ UNCHANGED <<run_vars, sink_vars, loop_vars, pc, index_task, html,
                   news_urls, tasks, i, fetched_raw_news, j, parsed_news, exc, log>>

\* lines 125-131: the parse returns or raises
ParseDone ==
    /\ pc = "await_parse"
    /\ j <= Len(parse_tasks)
    /\ parse_tasks[j].st = "running"
    /\ parse_tasks' = [parse_tasks EXCEPT ![j].st = "done"]
    /\ LET parse_res == parse_article_html(parse_tasks[j].val)
       IN  IF parse_res.raised
           THEN IF ParseLoopCatches(parse_res.exc)
                THEN /\ j' = j + 1
                     /\ UNCHANGED <<pc, exc, parsed_news>>
                ELSE /\ pc' = "aborted"
                     /\ exc' = parse_res.exc
                     /\ UNCHANGED <<j, parsed_news>>
           ELSE /\ parsed_news' =
                      Append(parsed_news,
                             [url |-> parse_tasks[j].key, title |-> parse_res.val.title,
                              date |-> parse_res.val.date, text |-> parse_res.val.text])
                /\ j' = j + 1
                /\ UNCHANGED <<pc, exc>>
    /\ UNCHANGED <<run_vars, sink_vars, loop_vars, index_task, html,
                   news_urls, tasks, i, fetched_raw_news, log>>

\* writer with the header written at every access
writer_HeaderEachTime(file) == IF csv_writer THEN Append(file, Header) ELSE <<Header>>

\* the property writer, lines 54-63: the file is opened with mode "w" and
\* the header written when there is no writer yet
writer(file) == IF csv_writer THEN file ELSE <<Header>>

\* a counter of batches instead of articles
Counted_Batches(n, batch) == n + 1

\* line 135: self._n_downloaded += len(parsed_news)
Counted(n, batch) == n + Len(batch)

\* a test that lets every batch through
Truthy_Always(batch) == TRUE

\* line 133, if parsed_news: a list is true when it is not empty
Truthy(batch) == batch # <<>>

\* lines 133-135: the batch is written and counted
WriteBatch ==
    /\ pc = "await_parse"
    /\ LoopOver(j, parse_tasks)
    /\ IF Truthy(parsed_news)
       THEN /\ disk' = writer(disk) \o Rows(parsed_news)
            /\ csv_writer' = TRUE
            /\ outfile' = IF csv_writer THEN outfile ELSE "open"
            /\ n_downloaded' = Counted(n_downloaded, parsed_news)
       ELSE UNCHANGED sink_vars
    /\ pc' = "return"
    /\ UNCHANGED <<run_vars, loop_vars, index_task, html, day_vars, exc, log>>

\* lines 137 and 152-160: len(parsed_news) is returned and logged with the
\* running total; the locals of _fetch_all_news_on_page are gone and html
\* is not read again
ReturnDay ==
    /\ pc = "return"
    /\ log' = Append(log, [msg |-> "processed", url |-> IndexUrl(date),
                           n |-> Len(parsed_news), total |-> n_downloaded])
    /\ news_urls' = <<>>
    /\ tasks' = <<>>
    /\ i' = 1
    /\ fetched_raw_news' = <<>>
    /\ parse_tasks' = <<>>
    /\ j' = 1
    /\ parsed_news' = <<>>
    /\ html' = BlankPage
    /\ pc' = "loop"
    /\ UNCHANGED <<run_vars, sink_vars, loop_vars, index_task, exc>>

\* main, line 198: the SIGINT handler of asyncio.run cancels the main task,
\* and CancelledError is raised at the await where the task is suspended
\* (lines 144, 106, 113, 126). At line 144 it reaches the handler of line
\* 149; at the other awaits no handler takes it (lines 114, 116 and 127 name
\* subclasses of Exception) and it leaves run(): the frames are unwound with
\* their locals, and the tasks they awaited are cancelled and dropped.
Interrupt ==
    /\ pc \in {"await_index", "extract", "await_fetch", "await_parse"}
    /\ IF pc = "await_index" /\ ProducerCatches("CancelledError")
       THEN /\ log' = Append(log, [msg |-> "Cannot fetch", url |-> index_task.url,
                                   n |-> 0, total |-> 0])
            /\ pc' = "loop"
            /\ UNCHANGED <<exc, html, day_vars>>
       ELSE /\ pc' = "aborted"
            /\ exc' = "CancelledError"
            /\ html' = BlankPage
            /\ news_urls' = <<>>
            /\ tasks' = <<>>
            /\ i' = 1
            /\ fetched_raw_news' = <<>>
            /\ parse_tasks' = <<>>
            /\ j' = 1
            /\ parsed_news' = <<>>
            /\ UNCHANGED log
    /\ index_task' = NoTask
    /\ UNCHANGED <<run_vars, sink_vars, loop_vars>>

Next ==
    \/ ProducerLoop
    \/ IndexResponse
    \/ ProducerIndexDone
    \/ SpawnFetches
    \/ ArticleResponse
    \/ AwaitFetch
    \/ StartParsing
    \/ AwaitParse
    \/ ParseDone
    \/ WriteBatch
    \/ ReturnDay
    \/ Interrupt

Spec == Init /\ [][Next]_vars

-----------------------------------------------------------------------------
(* The generator dates_countdown on its own, for ranges of any month and   *)
(* year: it is resumed until it ends, and the property is read again.      *)

\* longest range whose dates are drawn from the generator
MaxYield == 4

\* first dates: ends of months and years, leap days, the last dates there are
DateSamples ==
    {[y |-> 2023, m |-> 12, d |-> 30], [y |-> 2024, m |-> 2, d |-> 27],
     [y |-> 2023, m |-> 2, d |-> 27],  [y |-> 2100, m |-> 2, d |-> 28],
     [y |-> 2000, m |-> 2, d |-> 28],  [y |-> 2024, m |-> 4, d |-> 29],
     [y |-> 2013, m |-> 1, d |-> 1],   [y |-> 9999, m |-> 12, d |-> 29]}

\* __init__, lines 41-42, with dates that strptime accepts
InitDates ==
    /\ from_date \in DateSamples
    /\ to_date \in {dt \in {AddDays(from_date, k) : k \in 0..(MaxYield - 1)} :
                        DateLE(dt, MaxDate)}
                   \cup {dt \in DateSamples : ~DateLE(from_date, dt)}
    /\ site = <<>>
    /\ Constructed

\* next(generator), by a caller that only collects the dates
GenNext ==
    /\ gen \in {"created", "suspended"}
    /\ Resume
    /\ UNCHANGED <<run_vars, sink_vars, day_vars, date, pc, index_task, html, exc, log>>

\* the property dates_countdown is read again, lines 45-48: a new generator
Access ==
    /\ gen' = "created"
    /\ yielded' = <<>>
    /\ date_start' = from_date
    /\ UNCHANGED <<run_vars, sink_vars, day_vars, date, pc, index_task, html, exc, log>>

NextDates == GenNext \/ Access

SpecDates == InitDates /\ [][NextDates]_vars

-----------------------------------------------------------------------------
(* Vocabulary of the properties.                                           *)

TaskIdx == 1..Len(tasks)
FetchedOk(t) == t.st = "done" /\ ~t.res.raised
FetchFailed(t) == t.st = "done" /\ t.res.raised
Parses(doc) == ~parse_article_html(doc).raised

\* the data lines of the output file whose url is of the given date
IsRowOf(line, datestr) == ~line.hdr /\ line.cells[1].date = datestr
DayRows(datestr) == SelectSeq(disk, LAMBDA line : IsRowOf(line, datestr))

\* the data lines this run has written
RunRows == IF csv_writer THEN SelectSeq(disk, LAMBDA line : ~line.hdr) ELSE <<>>

\* the line a page yields when it is written for a url
RowOf(url, doc) ==
    LET a == parse_article_html(doc).val
    IN  Row([url |-> url, title |-> a.title, date |-> a.date, text |-> a.text])

\* the number a date string denotes
RECURSIVE Num(_)
Num(ds) == IF ds = <<>> THEN 0 ELSE 10 * Num(SubSeq(ds, 1, Len(ds) - 1)) + ds[Len(ds)]

NonSuccess(status) == status # 0 /\ status \notin 200..299

-----------------------------------------------------------------------------
(* C1: within a day a failing article fetch (connection failure, timeout,  *)
(* non-2xx) never ends the run, never cancels a sibling fetch, and every   *)
(* page that was fetched and parses is in the batch the day writes.        *)
C1_FetchFailuresAreIsolated ==
    /\ pc = "aborted" => exc \notin ExceptionClasses
    /\ \A k \in TaskIdx : tasks[k].st # "cancelled"
    /\ pc = "return" =>
          \A k \in TaskIdx :
              FetchedOk(tasks[k]) /\ Parses(tasks[k].res.val) =>
                  \E n \in 1..Len(DayRows(date)) :
                      DayRows(date)[n] =
                          RowOf(DayRows(date)[n].cells[1], tasks[k].res.val)

(* C2: when all parses succeed, the written batch has rows for exactly the *)
(* links whose fetch did not fail and the day returns N - |F|.             *)
C2_BatchIsTheLinksNotFailed ==
    (pc = "return" /\ \A k \in TaskIdx : FetchedOk(tasks[k]) => Parses(tasks[k].res.val)) =>
        LET F == {k \in TaskIdx : FetchFailed(tasks[k])}
            batch == DayRows(date)
        IN  /\ {batch[n].cells[1] : n \in 1..Len(batch)} = {tasks[k].url : k \in TaskIdx \ F}
            /\ Len(parsed_news) = Cardinality(Range(news_urls)) - Cardinality(F)

(* C3: every written row carries the fields parsed from the page that the  *)
(* fetch of the row's own url returned.                                    *)
C3_RowsTaggedWithOriginUrl ==
    pc = "return" =>
        \A n \in 1..Len(DayRows(date)) :
            \E k \in TaskIdx :
                /\ tasks[k].url = DayRows(date)[n].cells[1]
                /\ FetchedOk(tasks[k])
                /\ Parses(tasks[k].res.val)
                /\ DayRows(date)[n] = RowOf(tasks[k].url, tasks[k].res.val)

(* C4: each distinct link of the page is fetched once and the batch has    *)
(* exactly one row for every distinct link whose fetch and parse succeed,  *)
(* and no other row.                                                       *)
C4_DeduplicationLosesNothing ==
    pc = "return" =>
        LET batch == DayRows(date)
            good == {k \in TaskIdx : FetchedOk(tasks[k]) /\ Parses(tasks[k].res.val)}
        IN  /\ \A u \in Range(news_urls) :
                  Cardinality({k \in TaskIdx : tasks[k].url = u}) = 1
            /\ \A k \in good :
                  Cardinality({n \in 1..Len(batch) : batch[n].cells[1] = tasks[k].url}) = 1
            /\ Len(batch) = Cardinality(good)

C6_CrawlVisitsEveryDate ==
    (pc \in {"done", "aborted"} /\ exc # "CancelledError") =>
        /\ pc = "done"
        /\ \A dt \in CrawledDates(from_date, to_date) :
              \E n \in 1..Len(log) : log[n].url.date = strftime(dt)

(* C7: dates are consumed in ascending order, one day at a time: while the *)
(* archive page of a date is being fetched nothing of an earlier day is    *)
(* pending or unwritten, every live fetch belongs to the current date, and *)
(* the rows of the output are in ascending order of their dates.           *)
C7_DaysStrictlyOrdered ==
    /\ pc \in {"loop", "await_index", "extract", "done"} =>
          /\ tasks = <<>> /\ parse_tasks = <<>> /\ parsed_news = <<>>
          /\ \A n \in 1..Len(RunRows) : Num(RunRows[n].cells[1].date) <= Num(date)
    /\ \A k \in TaskIdx : tasks[k].url.date = date
    /\ \A m, n \in 1..Len(log) : m < n => Num(log[m].url.date) < Num(log[n].url.date)
    /\ \A n \in 1..Len(log) : Num(log[n].url.date) <= Num(date)
    /\ \A m, n \in 1..Len(RunRows) :
          m < n => Num(RunRows[m].cells[1].date) <= Num(RunRows[n].cells[1].date)

\* a later day has written its batch behind the rows of an earlier day
C7_Witness ==
    /\ pc = "return"
    /\ parsed_news # <<>>
    /\ \E n \in 1..Len(RunRows) : RunRows[n].cells[1].date # date

(* C8: a GET answered with a non-2xx status makes fetch raise instead of   *)
(* returning the body, for article pages and for archive pages.            *)
C8_NonSuccessStatusIsAFailure ==
    /\ (index_task.st = "done" /\ NonSuccess(index_task.status)) => index_task.res.raised
    /\ \A k \in TaskIdx :
          (tasks[k].st = "done" /\ NonSuccess(tasks[k].status)) => tasks[k].res.raised

(* C9: a parse that raises never ends the run; the batch the day writes is *)
(* made of the fetched pages that have the date container, in order, each  *)
(* under the key it was fetched into, and a page without title or body is  *)
(* written with that field empty.                                          *)
C9_ParseFailuresAreIsolated ==
    /\ pc = "aborted" => exc \notin {"AttributeError", "IndexError"}
    /\ pc = "return" =>
          LET good == SelectSeq(parse_tasks, LAMBDA t : t.val.date.container)
              batch == DayRows(date)
          IN  /\ Len(batch) = Len(good)
              /\ \A n \in 1..Len(good) :
                    /\ batch[n].cells[1] = good[n].key
                    /\ batch[n].cells[2] = Cell(good[n].val.title)
                    /\ batch[n].cells[4] =
                          IF good[n].val.divs = <<>> THEN <<>>
                          ELSE Tail(sent_tokenize(good[n].val.divs))

\* a day wrote a row with an empty title next to a page that did not parse
C9_Witness ==
    /\ pc = "return"
    /\ \E n \in 1..Len(parse_tasks) : ~parse_tasks[n].val.date.container
    /\ \E n \in 1..Len(DayRows(date)) : DayRows(date)[n].cells[2] = <<>>
    /\ \E n \in 1..Len(DayRows(date)) : DayRows(date)[n].cells[2] # <<>>

(* C10: the counter never decreases, always equals the number of data rows *)
(* written in the run, and the count each day returns is the size of the   *)
(* batch written for that day, the logged totals being their running sum.  *)
RECURSIVE SumN(_)
SumN(entries) ==
    IF entries = <<>> THEN 0 ELSE Head(entries).n + SumN(Tail(entries))

C10_CounterCountsWrittenRows ==
    /\ n_downloaded = Len(RunRows)
    /\ \A n \in 1..Len(log) :
          log[n].msg = "processed" =>
              /\ log[n].n = Len(IF csv_writer THEN DayRows(log[n].url.date) ELSE <<>>)
              /\ log[n].total = SumN(SubSeq(log, 1, n))
    /\ \A m, n \in 1..Len(log) :
          (m < n /\ log[m].msg = "processed" /\ log[n].msg = "processed") =>
              log[m].total <= log[n].total
    /\ pc \in {"loop", "done"} => n_downloaded = SumN(log)

\* two days have written rows
C10_Witness ==
    /\ pc = "done"
    /\ \E m, n \in 1..Len(log) : m < n /\ log[m].n > 0 /\ log[n].n > 0

-----------------------------------------------------------------------------
\* what the run has put into its output file
RunOutput == IF csv_writer THEN disk ELSE <<>>

\* the rows of the days of the given log entries, day after day
RECURSIVE BatchRows(_)
BatchRows(entries) ==
    IF entries = <<>> THEN <<>>
    ELSE (IF Head(entries).msg = "processed" THEN DayRows(Head(entries).url.date) ELSE <<>>)
         \o BatchRows(Tail(entries))

\* the batches handed to the writer so far, in the order they were handed over
SubmittedRows == BatchRows(log) \o (IF pc = "return" THEN Rows(parsed_news) ELSE <<>>)

\* a day has reached lines 133-135 with its batch
BatchSubmitted == pc = "return" \/ \E n \in 1..Len(log) : log[n].msg = "processed"

(* C11: as stated, after any sequence of batches, empty ones included, the *)
(* output is the header line, once and first, followed by the rows of all  *)
(* batches in the order of submission.                                     *)
C11_HeaderAfterAnyBatches ==
    BatchSubmitted =>
        /\ RunOutput # <<>>
        /\ RunOutput[1] = Header
        /\ \A n \in 2..Len(RunOutput) : ~RunOutput[n].hdr
        /\ Tail(RunOutput) = SubmittedRows

(* C11: once a batch with rows has been submitted the output is the header *)
(* line, once and first, followed by the rows of all batches in the order  *)
(* of submission, an empty batch adding no row; as long as only empty      *)
(* batches were submitted nothing is written, not even the header.         *)
C11_HeaderOnceThenBatchRows ==
    /\ csv_writer =>
          /\ disk[1] = Header
          /\ \A n \in 2..Len(disk) : ~disk[n].hdr
          /\ Tail(disk) = SubmittedRows
    /\ ~csv_writer =>
          /\ disk = PriorFile
          /\ SubmittedRows = <<>>
    /\ csv_writer <=> \/ pc = "return" /\ parsed_news # <<>>
                      \/ \E n \in 1..Len(log) : log[n].n > 0

\* batches of two rows and of none have been submitted
C11_Witness ==
    /\ pc = "return"
    /\ parsed_news = <<>>
    /\ Len(disk) = 3
    /\ \E n \in 1..Len(log) : log[n].n = 2

(* C12: when the run has ended, by the return of run or by an exception    *)
(* that left it, the output file, if the run opened it, has been closed.   *)
C12_SinkClosedAtEndOfRun ==
    pc \in {"done", "aborted"} => outfile \in {"None", "closed"}

(* C13: the rows an earlier run left in the file of the same name are      *)
(* still in it, whatever the later run writes.                             *)
C13_SinkAppendOnlyAcrossRuns ==
    \A m \in 1..Len(PriorFile) :
        ~PriorFile[m].hdr => \E n \in 1..Len(disk) : disk[n] = PriorFile[m]

-----------------------------------------------------------------------------
\* the date an 8-digit string denotes
ParseDate(ds) ==
    [y |-> Num(SubSeq(ds, 1, 4)), m |-> Num(SubSeq(ds, 5, 6)), d |-> Num(SubSeq(ds, 7, 8))]

\* the number of the day in the proleptic Gregorian calendar, day 1 being 0001-01-01
toordinal(dt) ==
    LET y == dt.y - 1
        before == <<0, 31, 59, 90, 120, 151, 181, 212, 243, 273, 304, 334>>
        leap == dt.y % 4 = 0 /\ (dt.y % 100 # 0 \/ dt.y % 400 = 0)
    IN  365 * y + (y \div 4) - (y \div 100) + (y \div 400)
        + before[dt.m] + (IF leap /\ dt.m > 2 THEN 1 ELSE 0) + dt.d

\* a date of the calendar
IsDate(dt) ==
    /\ dt.y \in 1..9999 /\ dt.m \in 1..12 /\ dt.d >= 1
    /\ toordinal(dt) < toordinal(IF dt.m = 12 THEN [y |-> dt.y + 1, m |-> 1, d |-> 1]
                                 ELSE [y |-> dt.y, m |-> dt.m + 1, d |-> 1])

(* C14: the generator yields 8-digit dates, the n-th being n - 1 days      *)
(* after from_date and none after to_date; when it has ended it has        *)
(* yielded to_date - from_date + 1 dates if from_date <= to_date and none, *)
(* without raising, if from_date > to_date; a new access of the property   *)
(* starts again at from_date.                                              *)
C14_DateCursorYieldsTheRange ==
    LET first == toordinal(from_date)
        last == toordinal(to_date)
    IN  /\ \A n \in 1..Len(yielded) :
              /\ Len(yielded[n]) = 8
              /\ IsDate(ParseDate(yielded[n]))
              /\ toordinal(ParseDate(yielded[n])) = first + n - 1
              /\ first + n - 1 <= last
        /\ gen \in {"exhausted", "raised"} =>
              Len(yielded) = IF first <= last THEN last - first + 1 ELSE 0
        /\ gen = "created" => yielded = <<>>
        /\ gen = "suspended" => yielded # <<>> /\ ParseDate(yielded[Len(yielded)]) = date_start
        /\ first > last => gen # "raised"

\* a range over the end of February of a leap year has been yielded whole
C14_Witness ==
    /\ gen = "exhausted"
    /\ Len(yielded) = 4
    /\ yielded[3] = <<2, 0, 2, 4, 0, 2, 2, 9>>
    /\ yielded[4] = <<2, 0, 2, 4, 0, 3, 0, 1>>

(* C15: when the driver waits for a parse, the parse of every fetched page *)
(* of the day has been handed to a thread: none is still to be started.    *)
C15_ParsesDispatchedTogether ==
    (pc = "await_parse" /\ \E n \in 1..Len(parse_tasks) : parse_tasks[n].st # "created") =>
        \A n \in 1..Len(parse_tasks) : parse_tasks[n].st # "created"

\* the rows this run has written for the date that is being processed
RowsOfToday == IF csv_writer THEN DayRows(date) ELSE <<>>

(* C16: the stages of a day are separated: a parse exists only when every  *)
(* fetch of the day has completed and been awaited, the batch is written   *)
(* only when every parse has completed, and the file is written at most    *)
(* once per day - by the step that ends the parse loop, when no row of the *)
(* day is in it yet.                                                       *)
C16_StageBarriers ==
    /\ [](/\ parse_tasks # <<>> =>
                /\ i > Len(tasks)
                /\ \A k \in TaskIdx : tasks[k].st = "done"
          /\ pc = "return" =>
                /\ j > Len(parse_tasks)
                /\ \A n \in 1..Len(parse_tasks) : parse_tasks[n].st = "done"
          /\ pc \in {"await_index", "extract", "await_fetch", "await_parse", "aborted"} =>
                RowsOfToday = <<>>)
    /\ [][disk' # disk =>
            /\ pc = "await_parse" /\ pc' = "return"
            /\ \A k \in TaskIdx : tasks[k].st = "done"
            /\ \A n \in 1..Len(parse_tasks) : parse_tasks[n].st = "done"
            /\ RowsOfToday = <<>>]_vars

\* a day with a failed and a successful fetch has written its batch
C16_Witness ==
    /\ pc = "return"
    /\ parsed_news # <<>>
    /\ Len(parse_tasks) >= 2
    /\ \E k \in TaskIdx : FetchFailed(tasks[k])

\* the fetch calls whose GET is under way
InFlight ==
    {t \in {index_task} \cup Range(tasks) : t.st = "pending"}

\* the pools the connections of the fetches in flight belong to
Pools == {Connector(t) : t \in InFlight}

(* C17: the fetches in flight at any moment draw their connections from    *)
(* one pool, and the connections open at that moment are at most the       *)
(* limit of the pool.                                                      *)
C17_OneCappedPool ==
    /\ Cardinality(Pools) <= 1
    /\ \A p \in Pools : Cardinality({t \in InFlight : Connector(t) = p}) <= limit
    /\ Cardinality(InFlight) <= limit

(* C18: an interrupt that is delivered to the driver, at whichever await    *)
(* it is suspended, ends the run there: no later date is started and no    *)
(* fetch is issued any more.                                               *)
C18_InterruptEndsTheRun ==
    [][Interrupt => pc' = "aborted" /\ InFlight' = {}]_vars

(* C19: the batch a day writes has no two rows with the same url and has   *)
(* at most as many rows as the archive page has distinct links.            *)
C19_BatchUrlsAreUnique ==
    pc = "return" =>
        /\ \A m, n \in 1..Len(RowsOfToday) :
              RowsOfToday[m].cells[1] = RowsOfToday[n].cells[1] => m = n
        /\ \A m, n \in 1..Len(parsed_news) :
              parsed_news[m].url = parsed_news[n].url => m = n
        /\ Len(RowsOfToday) <= Cardinality(Range(news_urls))
        /\ Len(RowsOfToday) = Len(parsed_news)

\* a page with a repeated link, all of whose fetches returned, has written rows
C19_Witness ==
    /\ pc = "return"
    /\ Len(news_urls) > Cardinality(Range(news_urls))
    /\ Len(tasks) >= 2
    /\ \A k \in TaskIdx : FetchedOk(tasks[k])
    /\ RowsOfToday # <<>>

(* C20: a day whose batch is empty is no error and touches neither the     *)
(* output nor the counter: the step that ends its parse loop leaves the    *)
(* file, the writer, the file object and the counter as they were, the day *)
(* returns 0, which is logged with the unchanged total, and the driver is  *)
(* back at the head of its loop; no row of such a day is in the output.    *)
C20_EmptyDayChangesNothing ==
    /\ [][(pc = "await_parse" /\ pc' # pc /\ parsed_news = <<>> /\ ~Interrupt) =>
            /\ pc' = "return"
            /\ UNCHANGED <<disk, csv_writer, outfile, n_downloaded>>]_vars
    /\ [][(pc = "return" /\ pc' # pc /\ parsed_news = <<>>) =>
            /\ pc' = "loop"
            /\ log' = Append(log, [msg |-> "processed", url |-> IndexUrl(date),
                                   n |-> 0, total |-> n_downloaded])
            /\ UNCHANGED <<disk, csv_writer, outfile, n_downloaded, exc>>]_vars
    /\ [](\A n \in 1..Len(log) :
            (log[n].msg = "processed" /\ log[n].n = 0) =>
                (IF csv_writer THEN DayRows(log[n].url.date) ELSE <<>>) = <<>>)

\* the first day gave an empty batch, nothing has been opened or written,
\* and the archive page of the next date is being fetched
C20_Witness ==
    /\ pc = "await_index"
    /\ Len(log) = 1
    /\ log[1].msg = "processed" /\ log[1].n = 0
    /\ ~csv_writer /\ outfile = "None" /\ disk = PriorFile /\ n_downloaded = 0

====
